---- MODULE Spec2Model ----
(***************************************************************************)
(* A model of the boost-node graph facade: the Neo4jConnection manager     *)
(* (src/neo4j_connection.py), the /neo4j router (src/routers/              *)
(* neo4j_router.py) and the /api node and relationship endpoints           *)
(* (src/main.py), over an abstract graph store.                            *)
(*                                                                         *)
(* Strings are sequences of one-character strings, so that a label can be  *)
(* inspected character by character and a conversion to text is a real     *)
(* conversion.  A property value is a tagged record; a property mapping is *)
(* a function from a finite set of keys to property values.                *)
(***************************************************************************)
EXTENDS Integers, Sequences, FiniteSets, TLC

\* Bounds of the model: the store holds at most MaxNodes nodes and MaxRels
\* relationships.
MaxNodes == 2
MaxRels == 2

\* get_graph(self, limit=100) and the router's limit: int = 100.
DefaultLimit == 100

\* The request slots (concurrent HTTP requests in flight).
Procs == {1, 2}

VARIABLES
    nodes,      \* the store's nodes: node id i is nodes[i + 1]
    rels,       \* the store's relationships: relationship id i is rels[i + 1]
    open,       \* the driver sessions that are open
    pc,         \* pc[p]: where request slot p stands
    op,         \* op[p]: the request slot p handles
    sess,       \* sess[p]: the session slot p's handler holds
    out,        \* out[p]: what the handler's with-block produced
    resp,       \* resp[p]: the HTTP response of the finished request
    created,    \* the successful creations, as the client saw them
    conv        \* the property converter's input and outputs (SpecConv)

vars == <<nodes, rels, open, pc, op, sess, out, resp, created, conv>>

None == [tag |-> "None"]

----------------------------------------------------------------------------
(* Property values and the Property Converter.                             *)

IntV(n) == [tag |-> "int", v |-> n]
StrV(s) == [tag |-> "str", v |-> s]
\* A neo4j.time.DateTime: <<year, month, day, hour, minute, second,
\* nanosecond>> (no time zone).
DateTimeV(t) == [tag |-> "DateTime", v |-> t]

Digit(d) == CASE d = 0 -> "0" [] d = 1 -> "1" [] d = 2 -> "2" [] d = 3 -> "3"
              [] d = 4 -> "4" [] d = 5 -> "5" [] d = 6 -> "6" [] d = 7 -> "7"
              [] d = 8 -> "8" [] d = 9 -> "9"

RECURSIVE IntToStr(_)
\* Python's str() of a natural number.
IntToStr(n) == IF n < 10 THEN <<Digit(n)>>
               ELSE IntToStr(n \div 10) \o <<Digit(n % 10)>>

DigitVal(c) == CHOOSE d \in 0..9 : Digit(d) = c

RECURSIVE StrToInt(_)
\* The path parameter's parse of a decimal string (node_id: int).
StrToInt(s) == IF Len(s) = 1 THEN DigitVal(s[1])
               ELSE 10 * StrToInt(SubSeq(s, 1, Len(s) - 1)) + DigitVal(s[Len(s)])

RECURSIVE Pad(_, _)
\* n in decimal, zero-padded to w digits.
Pad(n, w) == IF w = 0 THEN <<>> ELSE Pad(n \div 10, w - 1) \o <<Digit(n % 10)>>

\* DateTime.to_native(): a datetime.datetime, nanoseconds cut to microseconds.
ToNative(t) == <<t[1], t[2], t[3], t[4], t[5], t[6], t[7] \div 1000>>

\* datetime.isoformat(): YYYY-MM-DDTHH:MM:SS, then .ffffff when the
\* microseconds are not 0.
IsoFormat(d) ==
    Pad(d[1], 4) \o <<"-">> \o Pad(d[2], 2) \o <<"-">> \o Pad(d[3], 2) \o <<"T">>
    \o Pad(d[4], 2) \o <<":">> \o Pad(d[5], 2) \o <<":">> \o Pad(d[6], 2)
    \o (IF d[7] = 0 THEN <<>> ELSE <<".">> \o Pad(d[7], 6))

\* isinstance(value, DateTime)
IsDateTime(value) == value.tag = "DateTime"

\* A faulty converter, which turns every value into text and quotes the
\* strings it is given; C8 must tell it from convert_neo4j_to_python.
convert_stringify(value) ==
    CASE value.tag = "DateTime" -> StrV(IsoFormat(ToNative(value.v)))
      [] value.tag = "int" -> StrV(IntToStr(value.v))
      [] OTHER -> StrV(<<"'">> \o value.v \o <<"'">>)

convert_neo4j_to_python(value) ==
    IF IsDateTime(value) THEN StrV(IsoFormat(ToNative(value.v))) ELSE value

convert_properties(props) ==
    [k \in DOMAIN props |-> convert_neo4j_to_python(props[k])]

\* The property mappings over the keys K with values in V.
PropMaps(K, V) == UNION {[S -> V] : S \in SUBSET K}

EmptyProps == [k \in {} |-> None]

----------------------------------------------------------------------------
(* The converter on its own: every mapping of ConvInputs is converted      *)
(* once and then once more.                                                *)

Stamp1 == <<2024, 1, 2, 3, 4, 5, 0>>
Stamp2 == <<1999, 12, 31, 23, 59, 59, 123456789>>

ConvValues ==
    { IntV(7), IntV(42), StrV(<<"x">>), StrV(IsoFormat(ToNative(Stamp1))),
      DateTimeV(Stamp1), DateTimeV(Stamp2) }

ConvInputs == PropMaps({"uiNodeId", "created"}, ConvValues)

ConvIdle == [stage |-> "idle"]

----------------------------------------------------------------------------
(* Labels and relationship types as they reach the query text.             *)

Letters ==
    { "A", "B", "C", "D", "E", "F", "G", "H", "I", "J", "K", "L", "M", "N",
      "O", "P", "Q", "R", "S", "T", "U", "V", "W", "X", "Y", "Z",
      "a", "b", "c", "d", "e", "f", "g", "h", "i", "j", "k", "l", "m", "n",
      "o", "p", "q", "r", "s", "t", "u", "v", "w", "x", "y", "z" }

Digits == { Digit(d) : d \in 0..9 }

\* An unquoted Cypher symbolic name: letters, digits and underscores, not
\* starting with a digit.
IsSymbolicName(s) ==
    /\ s # <<>>
    /\ \A i \in 1..Len(s) : s[i] \in Letters \cup Digits \cup {"_"}
    /\ s[1] \notin Digits

\* The backtick character, which a string of this language cannot hold.
Backtick == "<backtick>"

SyntaxError == [err |-> "syntax"]

RECURSIVE SplitColon(_, _, _)
\* The pieces of s between its colons: acc holds the finished pieces, cur
\* the piece being read.
SplitColon(s, acc, cur) ==
    IF s = <<>> THEN Append(acc, cur)
    ELSE IF Head(s) = ":" THEN SplitColon(Tail(s), Append(acc, cur), <<>>)
    ELSE SplitColon(Tail(s), acc, Append(cur, Head(s)))

\* f"CREATE (n:{label} $props) RETURN n": the text after "n:" is read by the
\* store as symbolic names separated by colons, each one a label of the new
\* node; anything else does not parse.
PlainLabels(label) ==
    LET parts == SplitColon(label, <<>>, <<>>)
    IN  IF \A i \in 1..Len(parts) : IsSymbolicName(parts[i])
        THEN [err |-> "none", names |-> { parts[i] : i \in 1..Len(parts) }]
        ELSE SyntaxError

\* f"CREATE (from)-[r:{relationship.type}]->(to)": a created relationship
\* has exactly one type, an unquoted symbolic name.
PlainType(type) ==
    IF IsSymbolicName(type) THEN [err |-> "none", name |-> type] ELSE SyntaxError

RECURSIVE QuotedName(_, _)
\* The store's reading of the text that follows an opening backtick: a
\* doubled backtick is a backtick of the name, a single one ends the name.
\* Text left between the end of the name and the end of the interpolated
\* text does not parse, and neither does an empty or an unterminated name.
QuotedName(text, name) ==
    IF text = <<>> THEN SyntaxError
    ELSE IF Head(text) # Backtick THEN QuotedName(Tail(text), Append(name, Head(text)))
    ELSE IF Len(text) >= 2 /\ text[2] = Backtick
         THEN QuotedName(Tail(Tail(text)), Append(name, Backtick))
    ELSE IF Len(text) = 1 /\ name # <<>> THEN [err |-> "none", name |-> name]
    ELSE SyntaxError

\* "CREATE (a)-[r:<backtick>{}<backtick>]->(b)".format(rel_type)
BacktickType(rel_type) == QuotedName(rel_type \o <<Backtick>>, <<>>)

----------------------------------------------------------------------------
(* The graph store, as the queries of the source read and write it.        *)

NodeIds == 0..(Len(nodes) - 1)
RelIds == 0..(Len(rels) - 1)

\* The driver's Node and Relationship objects of a result record.
NodeEntity(i) ==
    [id |-> i, labels |-> nodes[i + 1].labels, props |-> nodes[i + 1].props]

RelEntity(j) ==
    [id |-> j, type |-> rels[j + 1].type, start |-> rels[j + 1].start,
     end |-> rels[j + 1].end, props |-> rels[j + 1].props]

\* An ascending sequence of the members of a finite set of integers.
RECURSIVE Ascending(_)
Ascending(S) ==
    IF S = {} THEN <<>>
    ELSE LET m == CHOOSE x \in S : \A y \in S : x <= y
         IN  <<m>> \o Ascending(S \ {m})

Reverse(s) == [i \in 1..Len(s) |-> s[Len(s) + 1 - i]]

\* A faulty match, which returns the first node of the store for every id
\* that exists; C5 must tell it from MatchById.
MatchByIdFirst(id) == IF id \in NodeIds THEN NodeEntity(0) ELSE None

\* "MATCH (n) WHERE id(n) = $id RETURN n", result.single()
MatchById(id) == IF id \in NodeIds THEN NodeEntity(id) ELSE None

\* MATCH (from) WHERE from.uiNodeId = $from_id: the ids of the nodes whose
\* uiNodeId property is the given string, ascending.
MatchByUiNodeId(ui) ==
    Ascending({ i \in NodeIds :
        /\ "uiNodeId" \in DOMAIN nodes[i + 1].props
        /\ nodes[i + 1].props["uiNodeId"] = StrV(ui) })

\* MATCH (n) OPTIONAL MATCH (n)-[r]->(m) RETURN n, r, m: per node, one
\* record per outgoing relationship, or one record without r and m.  The
\* store fixes no order among a node's relationships: newestFirst chooses
\* between the two chain orders.
RecordsOf(i, newestFirst) ==
    LET outgoing == Ascending({ j \in RelIds : rels[j + 1].start = i })
        ordered == IF newestFirst THEN Reverse(outgoing) ELSE outgoing
    IN  IF outgoing = <<>>
        THEN << [n |-> NodeEntity(i), r |-> None, m |-> None] >>
        ELSE [k \in 1..Len(ordered) |->
                [n |-> NodeEntity(i), r |-> RelEntity(ordered[k]),
                 m |-> NodeEntity(rels[ordered[k] + 1].end)]]

RECURSIVE GraphRecords(_, _)
GraphRecords(i, newestFirst) ==
    IF i >= Len(nodes) THEN <<>>
    ELSE RecordsOf(i, newestFirst) \o GraphRecords(i + 1, newestFirst)

\* LIMIT $limit
Limit(records, limit) ==
    IF Len(records) <= limit THEN records ELSE SubSeq(records, 1, limit)

----------------------------------------------------------------------------
(* Sessions.                                                               *)

NoSession == [tag |-> "NoSession"]

\* The sessions some handler still refers to.
Held == { sess[p] : p \in { q \in Procs : sess[q] # NoSession } }

\* A faulty driver, which hands out a session it already has open when it
\* has one; C10 must tell it from NewSession.
CachedSession ==
    IF open = {} THEN [sid |-> 0] ELSE CHOOSE s \in open : TRUE

\* self.driver.session() and driver.session(): a new session object, none
\* of those that are open or that a handler still refers to.
NewSession ==
    LET n == CHOOSE i \in 0..Cardinality(open \cup Held) :
                 [sid |-> i] \notin open \cup Held
    IN  [sid |-> n]

\* A faulty scoped session, without the try/finally: closed on a normal
\* exit only; C3 must tell it from SessionExit.
SessionExitNoFinally(s, raised) == IF raised THEN open ELSE open \ {s}

\* Neo4jConnection.session(): "finally: session.close()" runs however the
\* block is left.
SessionExit(s, raised) == open \ {s}

\* "with driver.session() as session:" in main.py: the driver's own
\* context manager closes the session on exit.
DriverSessionExit(s, raised) == open \ {s}

----------------------------------------------------------------------------
(* What a with-block and a handler produce.                                *)

\* The block raised: the store refused the query text ("syntax") or could
\* not be reached ("unavailable").
BlockRaised(err) ==
    [err |-> err, value |-> None, issued |-> TRUE, matched |-> 0,
     records |-> <<>>, before |-> Len(rels)]

\* The block returned value.  issued says that a query was sent to the
\* store, matched counts the (from, to) rows a relationship query matched,
\* records are the rows a graph query returned and before is the number of
\* relationships the store held when the query arrived.
BlockReturned(value, matched, records) ==
    [err |-> "none", value |-> value, issued |-> TRUE, matched |-> matched,
     records |-> records, before |-> Len(rels)]

NoOutcome ==
    [err |-> "none", value |-> None, issued |-> FALSE, matched |-> 0,
     records |-> <<>>, before |-> 0]

\* raise HTTPException(status_code=status, ...)
HTTPException(status) == [raised |-> TRUE, http |-> TRUE, status |-> status, body |-> None]

\* An exception of the driver, which is no HTTPException.
DriverException(err) == [raised |-> TRUE, http |-> FALSE, status |-> 500, body |-> None]

\* return body
Return(body) == [raised |-> FALSE, http |-> FALSE, status |-> 200, body |-> body]

\* "except Exception as e: raise HTTPException(status_code=500, ...)":
\* HTTPException is an Exception, so the clause catches it as well.
ExceptException(outcome) ==
    IF outcome.raised THEN HTTPException(500) ELSE outcome

\* What the framework sends: the returned body with 200, or the status of
\* the HTTPException that left the handler.
HttpResponse(outcome) == [status |-> outcome.status, body |-> outcome.body]

----------------------------------------------------------------------------
(* Mapping result records to response shapes.                              *)

\* bool(entity) of a driver Node or Relationship.  Entity is a Mapping that
\* defines __len__ as its number of properties and no __bool__, so an
\* entity without properties is false, as None is.
Truthy(entity) == entity # None /\ DOMAIN entity.props # {}

\* record["n"].id not in nodes
NotIn(id, ns) == \A i \in 1..Len(ns) : ns[i].id # id

NodeDict(node) ==
    [id |-> node.id, labels |-> node.labels,
     properties |-> convert_properties(node.props)]

RelDict(rel) ==
    [id |-> rel.id, type |-> rel.type, source |-> rel.start,
     target |-> rel.end, properties |-> convert_properties(rel.props)]

RECURSIVE GraphFold(_, _, _)
\* The loop of get_graph over the result records: ns is the nodes dict (in
\* insertion order), rs the relationships list.
GraphFold(records, ns, rs) ==
    IF records = <<>> THEN [nodes |-> ns, relationships |-> rs]
    ELSE LET record == Head(records)
             ns1 == IF Truthy(record.n) /\ NotIn(record.n.id, ns)
                    THEN Append(ns, NodeDict(record.n)) ELSE ns
             ns2 == IF Truthy(record.m) /\ NotIn(record.m.id, ns1)
                    THEN Append(ns1, NodeDict(record.m)) ELSE ns1
             rs1 == IF Truthy(record.r)
                    THEN Append(rs, RelDict(record.r)) ELSE rs
         IN  GraphFold(Tail(records), ns2, rs1)

----------------------------------------------------------------------------
(* The requests.                                                           *)

ApiCreateNode(label, properties) ==
    [kind |-> "api_create_node", label |-> label, properties |-> properties]

Neo4jCreateNode(label, properties) ==
    [kind |-> "neo4j_create_node", label |-> label, properties |-> properties]

Neo4jGetNode(node_id) == [kind |-> "neo4j_get_node", node_id |-> node_id]

\* from_id and to_id are strings here, matched against uiNodeId.
ApiCreateRelationship(from_id, to_id, type, properties) ==
    [kind |-> "api_create_relationship", from_ui |-> from_id, to_ui |-> to_id,
     type |-> type, properties |-> properties]

\* from_id and to_id are internal node ids here; properties may be None.
Neo4jCreateRelationship(from_id, to_id, type, properties) ==
    [kind |-> "neo4j_create_relationship", from_id |-> from_id,
     to_id |-> to_id, type |-> type, properties |-> properties]

Neo4jGetGraph(limit) == [kind |-> "neo4j_get_graph", limit |-> limit]

Neo4jTestConnection == [kind |-> "neo4j_test_connection"]

Neo4jGetUsers == [kind |-> "neo4j_get_users"]

NoRequest == [kind |-> "none"]

\* The endpoints of main.py, which open their sessions on main.py's driver.
ApiKinds == {"api_create_node", "api_create_relationship"}

CreateNodeKinds == {"api_create_node", "neo4j_create_node"}
CreateRelKinds == {"api_create_relationship", "neo4j_create_relationship"}

UserLabel == <<"U", "s", "e", "r">>

Connected == <<"C", "o", "n", "n", "e", "c", "t", "e", "d", "!">>

----------------------------------------------------------------------------
(* A request arrives: the handler is entered and opens its session.        *)

Begin(p, request) ==
    /\ pc[p] \in {"idle", "done"}
    /\ request.kind \in CreateNodeKinds => Len(nodes) < MaxNodes
    /\ request.kind \in CreateRelKinds => Len(rels) < MaxRels
    /\ LET session == NewSession
       IN  /\ open' = open \cup {session}
           /\ sess' = [sess EXCEPT ![p] = session]
    /\ pc' = [pc EXCEPT ![p] = "opened"]
    /\ op' = [op EXCEPT ![p] = request]
    /\ out' = [out EXCEPT ![p] = NoOutcome]
    /\ resp' = [resp EXCEPT ![p] = None]
    /\ UNCHANGED <<nodes, rels, created, conv>>

\* The with-block ran to its return or to an exception, with outcome.
Ran(p, outcome) ==
    /\ pc' = [pc EXCEPT ![p] = "ran"]
    /\ out' = [out EXCEPT ![p] = outcome]
    /\ UNCHANGED <<open, op, sess, resp, created, conv>>

\* session.run(...) fails because the store cannot be reached.
RunUnavailable(p) ==
    /\ pc[p] = "opened"
    /\ Ran(p, BlockRaised("unavailable"))
    /\ UNCHANGED <<nodes, rels>>

\* CREATE (n:<label> $props) RETURN n: the node the store makes, or its
\* refusal of the query text.
CreateNode(label, properties) ==
    LET parsed == PlainLabels(label)
    IN  IF parsed.err # "none" THEN parsed
        ELSE [err |-> "none",
              node |-> [id |-> Len(nodes), labels |-> parsed.names,
                        props |-> properties]]

\* main.py create_node: {"node": {"id": created_node.id, "properties": ...}}
ApiNodeBody(node) == [id |-> IntV(node.id), properties |-> node.props]

\* neo4j_router.py create_node: the id as str(neo4j_node.id), the labels
\* and the properties as they are.
Neo4jNodeBody(node) ==
    [id |-> StrV(IntToStr(node.id)), labels |-> node.labels,
     properties |-> node.props]

\* POST /api/nodes, inside its session block.
RunApiCreateNode(p) ==
    /\ pc[p] = "opened"
    /\ op[p].kind = "api_create_node"
    /\ LET q == CreateNode(op[p].label, op[p].properties)
       IN  IF q.err # "none"
           THEN /\ Ran(p, BlockRaised(q.err))
                /\ UNCHANGED <<nodes, rels>>
           ELSE /\ Len(nodes) < MaxNodes
                /\ nodes' = Append(nodes, [labels |-> q.node.labels,
                                           props |-> q.node.props])
                /\ Ran(p, BlockReturned(ApiNodeBody(q.node), 0, <<>>))
                /\ UNCHANGED rels

\* POST /neo4j/nodes, inside its session block.
RunNeo4jCreateNode(p) ==
    /\ pc[p] = "opened"
    /\ op[p].kind = "neo4j_create_node"
    /\ LET q == CreateNode(op[p].label, op[p].properties)
       IN  IF q.err # "none"
           THEN /\ Ran(p, BlockRaised(q.err))
                /\ UNCHANGED <<nodes, rels>>
           ELSE /\ Len(nodes) < MaxNodes
                /\ nodes' = Append(nodes, [labels |-> q.node.labels,
                                           props |-> q.node.props])
                /\ Ran(p, BlockReturned(Neo4jNodeBody(q.node), 0, <<>>))
                /\ UNCHANGED rels

\* Neo4jConnection.get_node_by_id
RunGetNodeById(p) ==
    /\ pc[p] = "opened"
    /\ op[p].kind = "neo4j_get_node"
    /\ LET node == MatchById(op[p].node_id)
       IN  Ran(p, BlockReturned(IF node = None THEN None ELSE NodeDict(node),
                                0, <<>>))
    /\ UNCHANGED <<nodes, rels>>

\* Neo4jConnection.create_relationship: MATCH (a), (b) WHERE id(a) =
\* $from_id AND id(b) = $to_id CREATE (a)-[r:<type>]->(b) SET r = $props
\* RETURN r.
RunCreateRelationship(p) ==
    /\ pc[p] = "opened"
    /\ op[p].kind = "neo4j_create_relationship"
    /\ LET properties == IF op[p].properties = None THEN EmptyProps
                         ELSE op[p].properties
           parsed == BacktickType(op[p].type)
           a == MatchById(op[p].from_id)
           b == MatchById(op[p].to_id)
       IN  IF parsed.err # "none"
           THEN /\ Ran(p, BlockRaised(parsed.err))
                /\ UNCHANGED <<nodes, rels>>
           ELSE IF a = None \/ b = None
           THEN /\ Ran(p, BlockReturned(None, 0, <<>>))
                /\ UNCHANGED <<nodes, rels>>
           ELSE /\ Len(rels) < MaxRels
                /\ rels' = Append(rels, [type |-> parsed.name, start |-> a.id,
                                         end |-> b.id, props |-> properties])
                /\ Ran(p, BlockReturned(
                       [id |-> Len(rels), type |-> parsed.name,
                        start_node |-> a.id, end_node |-> b.id,
                        properties |-> properties], 1, <<>>))
                /\ UNCHANGED nodes

RECURSIVE Pairs(_, _)
\* The (from, to) rows of two MATCH clauses, in row order.
Pairs(froms, tos) ==
    IF froms = <<>> THEN <<>>
    ELSE [k \in 1..Len(tos) |-> <<Head(froms), tos[k]>>] \o Pairs(Tail(froms), tos)

\* POST /api/relationships, inside its session block: MATCH (from) WHERE
\* from.uiNodeId = $from_id MATCH (to) WHERE to.uiNodeId = $to_id CREATE
\* (from)-[r:<type>]->(to) SET r += $properties: one relationship per
\* matched row.  The handler does not read the result.
RunApiCreateRelationship(p) ==
    /\ pc[p] = "opened"
    /\ op[p].kind = "api_create_relationship"
    /\ LET parsed == PlainType(op[p].type)
           rows == Pairs(MatchByUiNodeId(op[p].from_ui),
                         MatchByUiNodeId(op[p].to_ui))
       IN  IF parsed.err # "none"
           THEN /\ Ran(p, BlockRaised(parsed.err))
                /\ UNCHANGED <<nodes, rels>>
           ELSE /\ Len(rels) + Len(rows) <= MaxRels
                /\ rels' = rels \o
                      [k \in 1..Len(rows) |->
                          [type |-> parsed.name, start |-> rows[k][1],
                           end |-> rows[k][2], props |-> op[p].properties]]
                /\ Ran(p, BlockReturned(None, Len(rows), <<>>))
                /\ UNCHANGED nodes

\* Neo4jConnection.get_graph
RunGetGraph(p) ==
    /\ pc[p] = "opened"
    /\ op[p].kind = "neo4j_get_graph"
    /\ \E newestFirst \in BOOLEAN :
          LET records == Limit(GraphRecords(0, newestFirst), op[p].limit)
          IN  Ran(p, BlockReturned(GraphFold(records, <<>>, <<>>), 0, records))
    /\ UNCHANGED <<nodes, rels>>

\* Neo4jConnection.execute_query("RETURN 'Connected!' AS message")
RunTestConnection(p) ==
    /\ pc[p] = "opened"
    /\ op[p].kind = "neo4j_test_connection"
    /\ Ran(p, BlockReturned(<< [message |-> StrV(Connected)] >>, 0, <<>>))
    /\ UNCHANGED <<nodes, rels>>

\* GET /neo4j/users, inside its session block: MATCH (u:User) RETURN u
RunGetUsers(p) ==
    /\ pc[p] = "opened"
    /\ op[p].kind = "neo4j_get_users"
    /\ LET users == Ascending({ i \in NodeIds : UserLabel \in nodes[i + 1].labels })
       IN  Ran(p, BlockReturned(
              [k \in 1..Len(users) |->
                  [id |-> users[k],
                   properties |-> convert_properties(nodes[users[k] + 1].props)]],
              0, <<>>))
    /\ UNCHANGED <<nodes, rels>>

----------------------------------------------------------------------------
(* The handlers' outcomes, from what their session block produced.         *)

\* The exception the block raised, or else the handler's own result.
Try(o, result) == IF o.err # "none" THEN DriverException(o.err) ELSE result

\* main.py create_node
main_create_node(o) == ExceptException(Try(o, Return([node |-> o.value])))

\* main.py create_relationship: the success message, whatever was matched.
main_create_relationship(o) ==
    ExceptException(Try(o, Return([message |-> "Relationship created successfully"])))

\* neo4j_router.py create_node
router_create_node(o) == ExceptException(Try(o, Return([node |-> o.value])))

\* neo4j_router.py get_node: "if not result: raise HTTPException(404)" is
\* raised inside the try block.
get_node(o) ==
    ExceptException(Try(o, IF o.value = None THEN HTTPException(404)
                           ELSE Return([node |-> o.value])))

\* neo4j_router.py create_relationship: "if not result: raise
\* HTTPException(500)" inside the try block.
router_create_relationship(o) ==
    ExceptException(Try(o, IF o.value = None THEN HTTPException(500)
                           ELSE Return([relationship |-> o.value])))

\* neo4j_router.py get_graph
get_graph(o) == ExceptException(Try(o, Return(o.value)))

\* neo4j_router.py test_connection
test_connection(o) ==
    ExceptException(Try(o, Return([status |-> "success",
                                   message |-> o.value[1].message])))

\* neo4j_router.py get_users
get_users(o) == ExceptException(Try(o, Return(o.value)))

Handler(request, o) ==
    CASE request.kind = "api_create_node" -> main_create_node(o)
      [] request.kind = "api_create_relationship" -> main_create_relationship(o)
      [] request.kind = "neo4j_create_node" -> router_create_node(o)
      [] request.kind = "neo4j_get_node" -> get_node(o)
      [] request.kind = "neo4j_create_relationship" -> router_create_relationship(o)
      [] request.kind = "neo4j_get_graph" -> get_graph(o)
      [] request.kind = "neo4j_test_connection" -> test_connection(o)
      [] request.kind = "neo4j_get_users" -> get_users(o)

\* The node id of a response, as the client writes it into the path of
\* GET /neo4j/nodes/{node_id} and the framework reads it back (node_id: int).
PathNodeId(id) == StrToInt(IF id.tag = "int" THEN IntToStr(id.v) ELSE id.v)

\* What the client learns from a response: the nodes and relationships it
\* was told were created.
Learn(request, response) ==
    IF response.status # 200 THEN created
    ELSE IF request.kind \in CreateNodeKinds
    THEN [created EXCEPT !.nodes = @ \cup
            {[id |-> PathNodeId(response.body.node.id),
              label |-> request.label, properties |-> request.properties]}]
    ELSE IF request.kind = "neo4j_create_relationship"
    THEN [created EXCEPT !.rels = @ \cup
            {[id |-> response.body.relationship.id, type |-> request.type,
              from_id |-> request.from_id, to_id |-> request.to_id]}]
    ELSE created

\* The session block is left, which closes the session, and the handler
\* answers.
Exit(p) ==
    /\ pc[p] = "ran"
    /\ open' = IF op[p].kind \in ApiKinds
               THEN DriverSessionExit(sess[p], out[p].err # "none")
               ELSE SessionExit(sess[p], out[p].err # "none")
    /\ sess' = [sess EXCEPT ![p] = NoSession]
    /\ pc' = [pc EXCEPT ![p] = "done"]
    /\ resp' = [resp EXCEPT ![p] = HttpResponse(Handler(op[p], out[p]))]
    /\ created' = Learn(op[p], HttpResponse(Handler(op[p], out[p])))
    /\ UNCHANGED <<nodes, rels, op, out, conv>>

----------------------------------------------------------------------------
(* The inputs and the specifications.                                      *)

LabelInputs == { UserLabel, <<"A", ":", "B">>, <<"A", Backtick>> }

TypeInputs == { <<"R">>, <<"R", Backtick>> }

Ui1 == <<"u", "1">>
Ui9 == <<"u", "9">>

NodePropInputs == { EmptyProps, [k \in {"uiNodeId"} |-> StrV(Ui1)] }

RelPropInputs == { EmptyProps, [k \in {"weight"} |-> IntV(1)] }

LimitInputs == { 1, 2, DefaultLimit }

\* What the store may hold before the service starts: nothing, or a node
\* written by another client, with a temporal property.
SeedStores ==
    { <<>>, << [labels |-> {UserLabel},
                props |-> [k \in {"created"} |-> DateTimeV(Stamp2)]] >> }

Requests ==
    { ApiCreateNode(l, pr) : l \in LabelInputs, pr \in NodePropInputs }
    \cup { Neo4jCreateNode(l, pr) : l \in LabelInputs, pr \in NodePropInputs }
    \cup { Neo4jGetNode(i) : i \in 0..MaxNodes }
    \cup { ApiCreateRelationship(f, t, ty, pr) :
             f \in {Ui1, Ui9}, t \in {Ui1, Ui9}, ty \in TypeInputs,
             pr \in RelPropInputs }
    \cup { Neo4jCreateRelationship(f, t, ty, pr) :
             f \in 0..MaxNodes, t \in 0..MaxNodes, ty \in TypeInputs,
             pr \in {None} \cup RelPropInputs }
    \cup { Neo4jGetGraph(l) : l \in LimitInputs }
    \cup { Neo4jTestConnection, Neo4jGetUsers }

\* The requests of the concurrent specification: one or two of each kind.
ConcRequests ==
    { ApiCreateNode(UserLabel, EmptyProps),
      Neo4jCreateNode(<<"A", Backtick>>, EmptyProps),
      Neo4jGetNode(0),
      ApiCreateRelationship(Ui1, Ui1, <<"R">>, EmptyProps),
      Neo4jCreateRelationship(0, 0, <<"R">>, None),
      Neo4jGetGraph(DefaultLimit),
      Neo4jTestConnection, Neo4jGetUsers }

Init ==
    /\ nodes \in SeedStores
    /\ rels = <<>>
    /\ open = {}
    /\ pc = [p \in Procs |-> "idle"]
    /\ op = [p \in Procs |-> NoRequest]
    /\ sess = [p \in Procs |-> NoSession]
    /\ out = [p \in Procs |-> NoOutcome]
    /\ resp = [p \in Procs |-> None]
    /\ created = [nodes |-> {}, rels |-> {}]
    /\ conv = ConvIdle

Step(p) ==
    \/ RunUnavailable(p)
    \/ RunApiCreateNode(p)
    \/ RunNeo4jCreateNode(p)
    \/ RunGetNodeById(p)
    \/ RunCreateRelationship(p)
    \/ RunApiCreateRelationship(p)
    \/ RunGetGraph(p)
    \/ RunTestConnection(p)
    \/ RunGetUsers(p)
    \/ Exit(p)

\* One request at a time.
Next == (\E request \in Requests : Begin(1, request)) \/ Step(1)

Spec == Init /\ [][Next]_vars

\* Requests in flight together, their steps interleaved.
NextConc ==
    \E p \in Procs : (\E request \in ConcRequests : Begin(p, request)) \/ Step(p)

SpecConc == Init /\ [][NextConc]_vars

\* The requests of the node specification: every creation of a node, every
\* fetch, and the creation of a relationship between the first two nodes.
NodeRequests ==
    { ApiCreateNode(l, pr) : l \in LabelInputs, pr \in NodePropInputs }
    \cup { Neo4jCreateNode(l, pr) : l \in LabelInputs, pr \in NodePropInputs }
    \cup { Neo4jGetNode(i) : i \in 0..MaxNodes }
    \cup { Neo4jCreateRelationship(0, 1, <<"R">>, None) }

\* One request at a time, among creations and fetches of nodes.
NextNodes ==
    \/ \E request \in NodeRequests : Begin(1, request)
    \/ RunUnavailable(1)
    \/ RunApiCreateNode(1)
    \/ RunNeo4jCreateNode(1)
    \/ RunGetNodeById(1)
    \/ RunCreateRelationship(1)
    \/ Exit(1)

SpecNodes == Init /\ [][NextNodes]_vars

InitConv ==
    /\ nodes = <<>>
    /\ rels = <<>>
    /\ open = {}
    /\ pc = [p \in Procs |-> "idle"]
    /\ op = [p \in Procs |-> NoRequest]
    /\ sess = [p \in Procs |-> NoSession]
    /\ out = [p \in Procs |-> NoOutcome]
    /\ resp = [p \in Procs |-> None]
    /\ created = [nodes |-> {}, rels |-> {}]
    /\ conv \in { [stage |-> "input", input |-> P] : P \in ConvInputs }

ConvertOnce ==
    /\ conv.stage = "input"
    /\ conv' = [stage |-> "once", input |-> conv.input,
                once |-> convert_properties(conv.input)]
    /\ UNCHANGED <<nodes, rels, open, pc, op, sess, out, resp, created>>

ConvertTwice ==
    /\ conv.stage = "once"
    /\ conv' = [stage |-> "twice", input |-> conv.input, once |-> conv.once,
                twice |-> convert_properties(conv.once)]
    /\ UNCHANGED <<nodes, rels, open, pc, op, sess, out, resp, created>>

NextConv == ConvertOnce \/ ConvertTwice

SpecConv == InitConv /\ [][NextConv]_vars

----------------------------------------------------------------------------
(* The claims.                                                             *)

Finished(p, kind) == pc[p] = "done" /\ op[p].kind = kind

\* The identifier rule of the specification: not empty, and letters, digits
\* and underscores only.
IsSafeIdentifier(s) ==
    /\ s # <<>>
    /\ \A i \in 1..Len(s) : s[i] \in Letters \cup Digits \cup {"_"}

\* A property mapping with its temporal values in ISO-8601 string form.
IsoForm(P) ==
    [k \in DOMAIN P |->
        IF P[k].tag = "DateTime" THEN StrV(IsoFormat(ToNative(P[k].v))) ELSE P[k]]

\* The number of entries of a node list with the given id.
Count(ns, id) == Cardinality({ i \in 1..Len(ns) : ns[i].id = id })

HasRel(record) == record.r # None

\* C1: a fetch by an id that matches no node (get_node_by_id returned
\* None) is answered with 404, not with 500.
C1_MissingNodeIsNotFound ==
    \A p \in Procs :
        (Finished(p, "neo4j_get_node") /\ out[p].err = "none"
            /\ out[p].value = None)
        => resp[p].status = 404

\* C2: a create-node or create-relationship request whose label or type is
\* not a safe identifier is answered with a client error, and no query was
\* sent to the store for it.  Stated for the requests that did not find the
\* store unreachable.
C2_UnsafeIdentifierRejected ==
    \A p \in Procs :
        (/\ pc[p] = "done"
         /\ out[p].err # "unavailable"
         /\ \/ op[p].kind \in CreateNodeKinds /\ ~IsSafeIdentifier(op[p].label)
            \/ op[p].kind \in CreateRelKinds /\ ~IsSafeIdentifier(op[p].type))
        => (resp[p].status \in 400..499 /\ ~out[p].issued)

\* C3: the open sessions are exactly the sessions of the requests whose
\* session block is still running: once a block is left, by a return or by
\* an exception, its session is closed.
C3_SessionsClosedOnExit ==
    open = { sess[p] : p \in { q \in Procs : pc[q] \in {"opened", "ran"} } }

\* A request of the connection manager whose block raised has finished
\* while another request is in its block: only that one's session is open.
C3_Witness ==
    /\ Finished(1, "neo4j_create_node")
    /\ out[1].err = "syntax"
    /\ pc[2] = "ran"
    /\ open = {sess[2]}

\* C4: a create-relationship request, on either endpoint, whose from_id or
\* to_id matched no node is answered with 500 and adds no relationship.
C4_UnmatchedEndpointsFail ==
    \A p \in Procs :
        (/\ pc[p] = "done"
         /\ op[p].kind \in CreateRelKinds
         /\ out[p].err = "none"
         /\ out[p].matched = 0)
        => (resp[p].status = 500 /\ Len(rels) = out[p].before)

\* C5: a node created with a valid label L and properties P, fetched by
\* the id its creation returned, comes back with L among its labels and
\* with the properties P (temporal values in ISO-8601 form), unless the
\* store cannot be reached.
C5_CreateThenFetch ==
    \A p \in Procs : \A c \in created.nodes :
        (/\ Finished(p, "neo4j_get_node")
         /\ op[p].node_id = c.id
         /\ IsSafeIdentifier(c.label)
         /\ out[p].err # "unavailable")
        => /\ resp[p].status = 200
           /\ c.label \in resp[p].body.node.labels
           /\ resp[p].body.node.properties = IsoForm(c.properties)

\* The second node created is fetched after another node was created.
C5_Witness ==
    \E c \in created.nodes :
        /\ Finished(1, "neo4j_get_node")
        /\ op[1].node_id = c.id
        /\ c.id = 1
        /\ IsSafeIdentifier(c.label)
        /\ resp[1].status = 200

\* C6: the node list of a graph slice has no two entries with the same id,
\* and a node that is the source or the target of several returned
\* relationships has exactly one entry.
C6_NodesExactlyOnce ==
    \A p \in Procs :
        (Finished(p, "neo4j_get_graph") /\ resp[p].status = 200)
        => LET ns == resp[p].body.nodes
               records == out[p].records
               asSource(x) == { k \in 1..Len(records) :
                                   HasRel(records[k]) /\ records[k].n.id = x }
               asTarget(x) == { k \in 1..Len(records) :
                                   HasRel(records[k]) /\ records[k].m.id = x }
           IN  /\ \A i, j \in 1..Len(ns) : ns[i].id = ns[j].id => i = j
               /\ \A x \in NodeIds :
                     (Cardinality(asSource(x)) >= 2 \/ Cardinality(asTarget(x)) >= 2)
                     => Count(ns, x) = 1

\* The half of C6 that the code keeps: no two entries with the same id.
NoDuplicateNodeIds ==
    \A p \in Procs :
        (Finished(p, "neo4j_get_graph") /\ resp[p].status = 200)
        => \A i, j \in 1..Len(resp[p].body.nodes) :
              resp[p].body.nodes[i].id = resp[p].body.nodes[j].id => i = j

\* C7: a relationship whose creation succeeded has exactly one entry in a
\* later graph slice, with its type, source and target, and its two end
\* nodes have exactly one entry each.  Stated for the slices with a limit
\* of at least 2 that the limit did not cut.
C7_CreatedRelationshipInSlice ==
    \A p \in Procs : \A c \in created.rels :
        (/\ Finished(p, "neo4j_get_graph")
         /\ resp[p].status = 200
         /\ op[p].limit >= 2
         /\ Len(out[p].records) < op[p].limit)
        => LET rs == resp[p].body.relationships
               ns == resp[p].body.nodes
               entries == { i \in 1..Len(rs) : rs[i].id = c.id }
           IN  /\ Cardinality(entries) = 1
               /\ \A i \in entries :
                     /\ rs[i].type = c.type
                     /\ rs[i].source = c.from_id
                     /\ rs[i].target = c.to_id
               /\ Count(ns, c.from_id) = 1
               /\ Count(ns, c.to_id) = 1

\* C8: converting a property mapping twice gives what converting it once
\* gives; the keys are kept and every value that is not temporal is left
\* as it is.
C8_ConvertIdempotent ==
    conv.stage = "twice"
    => /\ conv.twice = conv.once
       /\ DOMAIN conv.once = DOMAIN conv.input
       /\ \A k \in DOMAIN conv.input :
             conv.input[k].tag # "DateTime" => conv.once[k] = conv.input[k]

\* A mapping with a temporal value and another value was converted twice.
C8_Witness ==
    /\ conv.stage = "twice"
    /\ \E k \in DOMAIN conv.input : conv.input[k].tag = "DateTime"
    /\ \E k \in DOMAIN conv.input : conv.input[k].tag = "int"

\* C9: every returned record has its node n in the node list; a record
\* with a relationship has its node m there too; and the relationship list
\* is the records' relationships, in record order.
C9_RecordsMapToEntries ==
    \A p \in Procs :
        (Finished(p, "neo4j_get_graph") /\ resp[p].status = 200)
        => LET ns == resp[p].body.nodes
               rs == resp[p].body.relationships
               records == out[p].records
               present == SelectSeq(records, HasRel)
           IN  /\ \A k \in 1..Len(records) : Count(ns, records[k].n.id) >= 1
               /\ \A k \in 1..Len(records) :
                     HasRel(records[k]) => Count(ns, records[k].m.id) >= 1
               /\ [i \in 1..Len(rs) |-> rs[i].id]
                    = [i \in 1..Len(present) |-> present[i].r.id]

\* C10: a request whose session block is running holds an open session
\* that no other such request holds.
C10_SessionsNotShared ==
    \A p \in Procs :
        pc[p] \in {"opened", "ran"}
        => /\ sess[p] \in open
           /\ \A q \in Procs \ {p} :
                 pc[q] \in {"opened", "ran"} => sess[q] # sess[p]

\* Two requests are in their session blocks at once, one of them past its
\* query.
C10_Witness ==
    /\ pc[1] = "ran"
    /\ pc[2] = "opened"
    /\ sess[1] # sess[2]

====
